---- MODULE Spec2Model ----
(***************************************************************************)
(* Order-creation orchestration of microservices/order-service/main.go,    *)
(* together with the user lookup of microservices/user-service/main.go     *)
(* that it calls.  Each CreateOrder invocation is a goroutine that blocks  *)
(* at its outbound HTTP calls and at its store operations; invocations     *)
(* share the Order Store only.                                             *)
(***************************************************************************)
EXTENDS Integers, Sequences, FiniteSets, TLC

\* ------------------------------------------------------------------ bounds
\* number of CreateOrder invocations that are started (they may overlap)
MaxReqs == 2

Reqs == 1..MaxReqs

\* the highest id the users table hands out
MaxUsers == 2
\* how many GET /users/get requests clients send to the user-service directly
MaxLookups == 1

\* the number of /orders requests the monolith serves (they may overlap)
MaxMonoOrders == 2

MonoReqs == 1..MaxMonoOrders

\* ------------------------------------------------------------------ inputs
\* user ids a request body may carry; rows of the users table at start
UserIds == {0, 1, 2}
InitialUsers == {1}
Products == {"", "book"}
Amounts == {-1, 10}
Quantities == {1}

\* what a body may put in the fields the server is meant to set itself
ClientIds == {0, 7}
ClientStatuses == {"", "completed"}

\* time.Time values: the zero time, a time written in a request body, and
\* what time.Now() returns
ZeroTime == "zero"
ClientTime == "client"
Now == "now"

\* the fields of a body the server is meant to set itself
ClientFields == {"id", "status", "created_at"}

\* request bodies: ok says whether json.Decode accepts the body (no syntax
\* error, no field of the wrong type); illTyped names the fields among id,
\* status and created_at whose value json.Decode cannot store in the Order
\* struct (a string for id, a number for status, a created_at that is no
\* RFC 3339 time); the other fields are what the Order struct reads from an
\* accepted body
Malformed ==
  [ok |-> FALSE, illTyped |-> {}, id |-> 0, user_id |-> 0, product |-> "",
   quantity |-> 0, amount |-> 0, status |-> "", created_at |-> ZeroTime]

\* bodies that leave id, status and created_at out
PlainBodies ==
  [ok : {TRUE}, illTyped : {{}}, id : {0}, user_id : UserIds, product : Products, quantity : Quantities,
   amount : Amounts, status : {""}, created_at : {ZeroTime}]

\* the body of an order of an existing user that meets every constraint
ValidBody ==
  [ok |-> TRUE, illTyped |-> {}, id |-> 0, user_id |-> 1, product |-> "book", quantity |-> 1,
   amount |-> 10, status |-> "", created_at |-> ZeroTime]

\* ValidBody with created_at filled in, and id and status filled in or not
WellTypedClientBodies ==
  [ok : {TRUE}, illTyped : {{}}, id : ClientIds, user_id : {1}, product : {"book"},
   quantity : Quantities, amount : {10}, status : ClientStatuses,
   created_at : {ClientTime}]

\* ValidBody with one of id, status, created_at given a value of the wrong
\* type: well-formed JSON that json.Decode rejects
IllTypedBodies ==
  {[ValidBody EXCEPT !.ok = FALSE, !.illTyped = {f}] : f \in ClientFields}

\* the bodies in which the client fills in id, status or created_at, with
\* values of the right type or not
ClientBodies == WellTypedClientBodies \cup IllTypedBodies

Bodies == {Malformed} \cup PlainBodies

\* the bodies of the runs in which users are created: orders of a user that
\* exists from the start, of one that is created later and of a negative id
BodiesWithDirectory == {[ValidBody EXCEPT !.user_id = u] : u \in {-1, 1, 2}}

\* the bodies of the runs that look at the fields the server sets itself
BodiesWithClientFields == {Malformed, ValidBody} \cup ClientBodies

\* ------------------------------------------------------------------ values
StatusOK == 200
StatusBadRequest == 400
StatusNotFound == 404
StatusInternalServerError == 500

NoErr == "nil"

\* what an outbound HTTP call came back with: a status code, or NoAnswer when
\* the client returned an error instead of a response
NoAnswer == 0
NotCalled == -1
DirectoryAnswers == {NoAnswer, StatusOK, StatusNotFound}
PaymentAnswers == {NoAnswer, StatusOK, StatusInternalServerError}

\* type Order struct
ZeroOrder ==
  [ID |-> 0, UserID |-> 0, Product |-> "", Quantity |-> 0, Amount |-> 0, Status |-> "",
   CreatedAt |-> ZeroTime]

NoResp == [code |-> 0, kind |-> "none", text |-> "", order |-> ZeroOrder]

\* http.Error(w, text, code)
HttpError(text, code) == [code |-> code, kind |-> "error", text |-> text, order |-> ZeroOrder]

\* json.NewEncoder(w).Encode(order) with the implicit 200
EncodeOrder(o) == [code |-> StatusOK, kind |-> "order", text |-> "", order |-> o]

NoPayment == [sent |-> FALSE, order_id |-> 0, amount |-> 0]

VARIABLES
  pc,        \* pc[r]: where invocation r of CreateOrder stands
  body,      \* body[r]: the request body invocation r was given
  order,     \* order[r]: the handler's local variable `order`
  valAns,    \* valAns[r]: what the user lookup of invocation r came back with
  payAns,    \* payAns[r]: what the payment post of invocation r came back with
  resp,      \* resp[r]: what invocation r wrote to its ResponseWriter
  rows,      \* the orders table: a set of rows
  orderSeq,  \* the next value of the orders id sequence
  users,     \* the users table: the ids that have a row
  calls,     \* calls[r]: how many of each outbound call / store operation r made
  payReq,    \* payReq[r]: the payment request invocation r posted
  lookup,    \* lookup[r]: what GetUser met when it served the lookup of r
  userSeq,   \* the next value of the users id sequence
  userResp,  \* what the last CreateUser of the user-service answered
  dirLookup, \* the last GET /users/get a client sent to the user-service itself
  mUsers,    \* monolith: the ids of the users table
  mOrders,   \* monolith: the orders table
  mPayments, \* monolith: the payments table
  mSeq,      \* monolith: the next value of each table's id sequence
  mReq,      \* monolith: mReq[r]: where request r of createOrderHandler stands
  mUserResp  \* monolith: what the last createUserHandler answered

\* the user-service
dirVars == <<users, userSeq, userResp, dirLookup>>

\* the order-service
svcVars == <<pc, body, order, valAns, payAns, resp, rows, orderSeq, calls, payReq, lookup>>

\* the monolithic application
monoVars == <<mUsers, mOrders, mPayments, mSeq, mReq, mUserResp>>

vars == <<svcVars, dirVars, monoVars>>

\* asked: GetUser ran; row: the users table had a row with the id; dbErr: the
\* query failed
NoLookup == [asked |-> FALSE, row |-> FALSE, dbErr |-> FALSE]

\* n: how many such requests were answered; canonical: whether the id text
\* was the %d text of an integer; found: whether the query returned a row;
\* row: whether the users table held a row whose id the store read the id
\* text as; code: the status GetUser answered
NoDirectLookup ==
  [asked |-> FALSE, n |-> 0, canonical |-> FALSE, found |-> FALSE, row |-> FALSE, code |-> 0]

\* monolith: a createOrderHandler request not yet received; order is the
\* handler's local variable, orderRow and payRow the ids of the rows it wrote
NoMonoRequest ==
  [pc |-> "idle", ok |-> FALSE,
   order |-> [ID |-> 0, UserID |-> 0, Product |-> "", Amount |-> 0],
   code |-> 0, respId |-> 0, orderRow |-> 0, payRow |-> 0]

\* validate, insert, pay, update count the calls issued; returned is the id the
\* insert of the invocation returned (0: none); updated counts the status
\* updates that took effect
NoCalls ==
  [validate |-> 0, insert |-> 0, pay |-> 0, update |-> 0, returned |-> 0, updated |-> 0]

\* ------------------------------------------------------- decimal formatting
Digit == <<"0", "1", "2", "3", "4", "5", "6", "7", "8", "9">>

RECURSIVE FmtNat(_)
FmtNat(n) == IF n < 10 THEN <<Digit[n + 1]>> ELSE Append(FmtNat(n \div 10), Digit[(n % 10) + 1])

\* fmt.Sprintf("%d", n)
FmtInt(n) == IF n < 0 THEN <<"-">> \o FmtNat(0 - n) ELSE FmtNat(n)

DigitVal(c) == CHOOSE d \in 0..9 : Digit[d + 1] = c

IsDigit(c) == \E d \in 0..9 : Digit[d + 1] = c

RECURSIVE ParseNat(_)
ParseNat(s) ==
  IF Len(s) = 0 THEN 0
  ELSE 10 * ParseNat(SubSeq(s, 1, Len(s) - 1)) + DigitVal(s[Len(s)])

\* the characters the store's integer input skips around a number: what C's
\* isspace() accepts (space, \t, \n, \v, \f, \r); "\\v" stands for the
\* vertical tab, which has no escape of its own here
Blanks == {" ", "\t", "\n", "\\v", "\f", "\r"}

RECURSIVE TrimLeft(_)
TrimLeft(s) == IF Len(s) > 0 /\ s[1] \in Blanks THEN TrimLeft(Tail(s)) ELSE s

RECURSIVE TrimRight(_)
TrimRight(s) ==
  IF Len(s) > 0 /\ s[Len(s)] \in Blanks THEN TrimRight(SubSeq(s, 1, Len(s) - 1)) ELSE s

\* the digits of the bases a store of version 16 or later reads
LowerDigit == Digit \o <<"a", "b", "c", "d", "e", "f">>
UpperDigit == Digit \o <<"A", "B", "C", "D", "E", "F">>

\* whether c is a digit of the base, and its value
IsDigitOf(c, base) == \E d \in 1..base : LowerDigit[d] = c \/ UpperDigit[d] = c

DigitValOf(c) == (CHOOSE d \in 1..16 : LowerDigit[d] = c \/ UpperDigit[d] = c) - 1

\* the value of digits ds of the base, underscores skipped
RECURSIVE ParseNatOf(_, _)
ParseNatOf(ds, base) ==
  IF Len(ds) = 0 THEN 0
  ELSE LET front == ParseNatOf(SubSeq(ds, 1, Len(ds) - 1), base)
           c == ds[Len(ds)]
       IN  IF c = "_" THEN front ELSE base * front + DigitValOf(c)

\* the base a store of version 16 or later reads the unsigned text ds in
BaseOf(ds) ==
  IF Len(ds) >= 2 /\ ds[1] = "0"
  THEN IF ds[2] \in {"x", "X"} THEN 16
       ELSE IF ds[2] \in {"o", "O"} THEN 8
       ELSE IF ds[2] \in {"b", "B"} THEN 2
       ELSE 10
  ELSE 10

\* whether ds holds a number of the base for a store of version 16 or later:
\* at least one character, digits of the base and underscores only, every
\* underscore followed by a digit, and in base 10 no underscore in front
WellFormedDigits(ds, base) ==
  /\ Len(ds) > 0
  /\ \A i \in 1..Len(ds) :
       \/ IsDigitOf(ds[i], base)
       \/ /\ ds[i] = "_"
          /\ i < Len(ds) /\ IsDigitOf(ds[i + 1], base)
          /\ base = 10 => i > 1

\* the integer the store reads from the text parameter, or "invalid": blanks
\* around the number are skipped and one leading sign, + or -, is accepted.
\* modern says whether the store is of version 16 or later, which also reads
\* 0x, 0o and 0b numbers and underscores between digits; the repository pins
\* no version, so either can be met
ParseInt(s, modern) ==
  LET t    == TrimRight(TrimLeft(s))
      neg  == Len(t) > 0 /\ t[1] = "-"
      ds   == IF Len(t) > 0 /\ t[1] \in {"-", "+"} THEN Tail(t) ELSE t
      base == IF modern THEN BaseOf(ds) ELSE 10
      digits == IF base = 10 THEN ds ELSE SubSeq(ds, 3, Len(ds))
      good == IF modern THEN WellFormedDigits(digits, base)
              ELSE Len(ds) > 0 /\ \A i \in 1..Len(ds) : IsDigit(ds[i])
      n    == IF modern THEN ParseNatOf(digits, base) ELSE ParseNat(ds)
  IN  IF ~good THEN [valid |-> FALSE, val |-> 0]
      ELSE [valid |-> TRUE, val |-> IF neg THEN 0 - n ELSE n]

\* ------------------------------------------------------------ user-service
\* GetUser, lines 60-62: whether QueryRow(...).Scan returns no error, i.e. the
\* store reads the text as an integer, the query runs and finds a row
QueryUser(idText, tbl, dbErr, modern) ==
  LET p == ParseInt(idText, modern)
  IN  ~dbErr /\ p.valid /\ p.val \in tbl

GetUser_ErrIgnored(idText, tbl, dbErr, modern) == StatusOK

\* UserService.GetUser: the status it answers for the query parameter id,
\* given the users table and whether the query itself errors
GetUser(idText, tbl, dbErr, modern) ==
  IF QueryUser(idText, tbl, dbErr, modern) THEN StatusOK ELSE StatusNotFound

\* what http.Get(".../users/get?id=<userID>") comes back with
UserLookup(userID, reachable, tbl, dbErr, modern) ==
  IF reachable THEN GetUser(FmtInt(userID), tbl, dbErr, modern) ELSE NoAnswer

\* values of the id query parameter that GetUser may read at line 57: %d texts,
\* the empty text of a missing parameter, blank-padded and signed texts,
\* non-numbers, and texts only a store of version 16 or later reads
IdTexts ==
  {FmtInt(n) : n \in {-1, 1, 2}}
    \cup {<<>>, <<" ", "1">>, <<"2", "\n">>, <<"\t", "+", "1">>, <<"a", "b", "c">>,
          <<"0", "x", "1">>, <<"0", "b", "1", "0">>, <<"0", "o", "8">>, <<"0", "_", "2">>}

\* ----------------------------------------------------------- order-service
validateUser_AnyAnswer(answer) ==
  IF answer = NoAnswer THEN "user service unavailable" ELSE NoErr

validateUser_UnavailableIgnored(answer) ==
  IF answer \notin {NoAnswer, StatusOK} THEN "user not found" ELSE NoErr

\* OrderService.validateUser, given what http.Get came back with
validateUser(answer) ==
  IF answer = NoAnswer THEN "user service unavailable"
  ELSE IF answer # StatusOK THEN "user not found"
  ELSE NoErr

\* OrderService.processPayment, given what http.Post came back with
processPayment(answer) ==
  IF answer = NoAnswer THEN "payment service unavailable"
  ELSE IF answer # StatusOK THEN "payment failed"
  ELSE NoErr

\* the payment request processPayment marshals
PaymentRequest(orderID, amount) == [sent |-> TRUE, order_id |-> orderID, amount |-> amount]

\* the Order a decodable body unmarshals to: every json-tagged field is read
Unmarshal(b) ==
  [ID |-> b.id, UserID |-> b.user_id, Product |-> b.product, Quantity |-> b.quantity,
   Amount |-> b.amount, Status |-> b.status, CreatedAt |-> b.created_at]

DecodeOrder_ErrorDropped(b) == [err |-> NoErr, order |-> Unmarshal(b)]

\* json.NewDecoder(r.Body).Decode(&order)
DecodeOrder(b) ==
  IF ~b.ok
  THEN [err |-> "invalid json", order |-> ZeroOrder]
  ELSE [err |-> NoErr, order |-> Unmarshal(b)]

\* CreateOrder, lines 98-99: the order as it is handed to the insert
PendingOrder(o) == [o EXCEPT !.Status = "pending", !.CreatedAt = Now]

ScanID_Discarded(o, id) == o

\* CreateOrder, line 105: Scan(&order.ID) of the returned id
ScanID(o, id) == [o EXCEPT !.ID = id]

AssignId_Dedup(tbl, seq, o) ==
  LET same == {row \in tbl : /\ row.user_id = o.UserID /\ row.product = o.Product
                              /\ row.quantity = o.Quantity /\ row.amount = o.Amount}
  IN  IF same = {} THEN seq ELSE (CHOOSE row \in same : TRUE).id

\* the id the store assigns to an inserted row: the next sequence value
AssignId(tbl, seq, o) == seq

InsertOrder_Uncommitted(tbl, seq, o) == tbl

\* INSERT INTO orders (...) VALUES (...) RETURNING id: the table afterwards
InsertOrder(tbl, seq, o) ==
  tbl \cup {[id |-> AssignId(tbl, seq, o), user_id |-> o.UserID, product |-> o.Product,
             quantity |-> o.Quantity, amount |-> o.Amount, status |-> o.Status,
             created_at |-> o.CreatedAt]}

UpdateStatus_IdOrBelow(tbl, status, id) ==
  {IF row.id <= id THEN [row EXCEPT !.status = status] ELSE row : row \in tbl}

UpdateStatus_NoWhere(tbl, status, id) == {[row EXCEPT !.status = status] : row \in tbl}

\* UPDATE orders SET status = $1 WHERE id = $2: the table afterwards
UpdateStatus(tbl, status, id) ==
  {IF row.id = id THEN [row EXCEPT !.status = status] ELSE row : row \in tbl}

\* CreateOrder, lines 86-89
DecodeFailed(err) == HttpError(err, StatusBadRequest)

\* CreateOrder, lines 92-95
ValidationFailed(err) == HttpError(err, StatusBadRequest)

InsertFailed_AsBadRequest(err) == HttpError(err, StatusBadRequest)

\* CreateOrder, lines 106-109
InsertFailed(err) == HttpError(err, StatusInternalServerError)

PaymentFailed_OtherStatus(o, err) ==
  [status |-> "failed", resp |-> HttpError(err, StatusInternalServerError)]

PaymentFailed_UnavailableApart(o, err) ==
  IF err = "payment service unavailable"
  THEN [status |-> "pending", resp |-> HttpError(err, 503)]
  ELSE [status |-> "payment_failed", resp |-> HttpError(err, StatusInternalServerError)]

\* CreateOrder, lines 112-117: the status written and the response
PaymentFailed(o, err) ==
  [status |-> "payment_failed", resp |-> HttpError(err, StatusInternalServerError)]

PaymentSucceeded_StatusNotSet(o) == [status |-> "completed", resp |-> EncodeOrder(o)]

\* CreateOrder, lines 120-124: the status written and the response
PaymentSucceeded(o) ==
  [status |-> "completed", resp |-> EncodeOrder([o EXCEPT !.Status = "completed"])]

FinalResponse_UpdateErrorReported(out, updated) ==
  IF updated THEN out.resp ELSE HttpError("update failed", StatusInternalServerError)

\* CreateOrder, lines 114 and 121: the result of s.db.Exec is dropped, the
\* response is the one the payment outcome decided
FinalResponse(out, updated) == out.resp

Init ==
  /\ pc = [r \in Reqs |-> "idle"]
  /\ body = [r \in Reqs |-> Malformed]
  /\ order = [r \in Reqs |-> ZeroOrder]
  /\ valAns = [r \in Reqs |-> NotCalled]
  /\ payAns = [r \in Reqs |-> NotCalled]
  /\ resp = [r \in Reqs |-> NoResp]
  /\ rows = {}
  /\ orderSeq = 1
  /\ users = InitialUsers
  /\ calls = [r \in Reqs |-> NoCalls]
  /\ payReq = [r \in Reqs |-> NoPayment]
  /\ lookup = [r \in Reqs |-> NoLookup]
  /\ userSeq = 2
  /\ userResp = [code |-> 0, id |-> 0]
  /\ dirLookup = NoDirectLookup
  /\ mUsers = InitialUsers
  /\ mOrders = {}
  /\ mPayments = {}
  /\ mSeq = [users |-> 2, orders |-> 1, payments |-> 1]
  /\ mReq = [r \in MonoReqs |-> NoMonoRequest]
  /\ mUserResp = 0

\* CreateOrder, lines 85-92, for a body of B: decode the body; on success
\* send the user lookup
ReceiveFrom(r, B) ==
  /\ pc[r] = "idle"
  /\ \E b \in B :
       LET d == DecodeOrder(b)
       IN  /\ body' = [body EXCEPT ![r] = b]
           /\ IF d.err # NoErr
              THEN /\ resp' = [resp EXCEPT ![r] = DecodeFailed(d.err)]
                   /\ pc' = [pc EXCEPT ![r] = "done"]
                   /\ UNCHANGED <<order, calls>>
              ELSE /\ order' = [order EXCEPT ![r] = d.order]
                   /\ calls' = [calls EXCEPT ![r].validate = @ + 1]
                   /\ pc' = [pc EXCEPT ![r] = "validating"]
                   /\ UNCHANGED resp
  /\ UNCHANGED <<valAns, payAns, rows, orderSeq, lookup, dirVars, monoVars, payReq>>

ValidateReturn_Retry(r) ==
  /\ pc[r] = "validating"
  /\ \E reachable \in BOOLEAN, dbErr \in BOOLEAN, modern \in BOOLEAN :
       LET answer == UserLookup(order[r].UserID, reachable, users, dbErr, modern)
           err == validateUser(answer)
       IN  /\ valAns' = [valAns EXCEPT ![r] = answer]
           /\ lookup' = [lookup EXCEPT ![r] =
                           IF reachable
                           THEN [asked |-> TRUE, row |-> order[r].UserID \in users,
                                 dbErr |-> dbErr]
                           ELSE NoLookup]
           /\ IF answer = NoAnswer /\ calls[r].validate < 2
              THEN /\ calls' = [calls EXCEPT ![r].validate = @ + 1]
                   /\ UNCHANGED <<order, resp, pc>>
              ELSE IF err # NoErr
              THEN /\ resp' = [resp EXCEPT ![r] = ValidationFailed(err)]
                   /\ pc' = [pc EXCEPT ![r] = "done"]
                   /\ UNCHANGED <<order, calls>>
              ELSE /\ order' = [order EXCEPT ![r] = PendingOrder(@)]
                   /\ pc' = [pc EXCEPT ![r] = "inserting"]
                   /\ UNCHANGED <<resp, calls>>
  /\ UNCHANGED <<body, payAns, rows, orderSeq, dirVars, monoVars, payReq>>

Receive(r) == ReceiveFrom(r, Bodies)

ReceiveWithClientFields(r) == ReceiveFrom(r, BodiesWithClientFields)

ReceiveWithDirectory(r) == ReceiveFrom(r, BodiesWithDirectory)

\* CreateOrder, lines 92-99: the user lookup comes back (or the client gives
\* up with an error); on success the order is made pending
ValidateReturn(r) ==
  /\ pc[r] = "validating"
  /\ \E reachable \in BOOLEAN, dbErr \in BOOLEAN, modern \in BOOLEAN :
       LET answer == UserLookup(order[r].UserID, reachable, users, dbErr, modern)
           err == validateUser(answer)
       IN  /\ valAns' = [valAns EXCEPT ![r] = answer]
           /\ lookup' = [lookup EXCEPT ![r] =
                           IF reachable
                           THEN [asked |-> TRUE, row |-> order[r].UserID \in users,
                                 dbErr |-> dbErr]
                           ELSE NoLookup]
           /\ IF err # NoErr
              THEN /\ resp' = [resp EXCEPT ![r] = ValidationFailed(err)]
                   /\ pc' = [pc EXCEPT ![r] = "done"]
                   /\ UNCHANGED order
              ELSE /\ order' = [order EXCEPT ![r] = PendingOrder(@)]
                   /\ pc' = [pc EXCEPT ![r] = "inserting"]
                   /\ UNCHANGED resp
  /\ UNCHANGED <<body, payAns, rows, orderSeq, dirVars, monoVars, calls, payReq>>

\* CreateOrder, lines 101-112: the insert; on success post the payment
Insert(r) ==
  /\ pc[r] = "inserting"
  /\ \E ok \in BOOLEAN :
       IF ok
       THEN LET id == AssignId(rows, orderSeq, order[r])
                scanned == ScanID(order[r], id)
            IN  /\ rows' = InsertOrder(rows, orderSeq, order[r])
                /\ orderSeq' = orderSeq + 1
                /\ order' = [order EXCEPT ![r] = scanned]
                /\ payReq' = [payReq EXCEPT ![r] = PaymentRequest(scanned.ID, scanned.Amount)]
                /\ calls' = [calls EXCEPT ![r].insert = @ + 1, ![r].returned = id,
                                          ![r].pay = @ + 1]
                /\ pc' = [pc EXCEPT ![r] = "paying"]
                /\ UNCHANGED resp
       ELSE /\ resp' = [resp EXCEPT ![r] = InsertFailed("insert failed")]
            /\ calls' = [calls EXCEPT ![r].insert = @ + 1]
            /\ pc' = [pc EXCEPT ![r] = "done"]
            /\ UNCHANGED <<rows, orderSeq, order, payReq>>
  /\ UNCHANGED <<body, valAns, payAns, lookup, dirVars, monoVars>>

\* UserService.GetUser, asked by a client directly with any id text
GetUserRequest ==
  \E text \in IdTexts, dbErr \in BOOLEAN, modern \in BOOLEAN :
    /\ dirLookup.n < MaxLookups
    /\ dirLookup' = [asked |-> TRUE,
                     n |-> dirLookup.n + 1,
                     canonical |-> \E k \in -1..2 : text = FmtInt(k),
                     found |-> QueryUser(text, users, dbErr, modern),
                     row |-> \E u \in users : ParseInt(text, modern) = [valid |-> TRUE, val |-> u],
                     code |-> GetUser(text, users, dbErr, modern)]
    /\ UNCHANGED <<users, userSeq, userResp, svcVars, monoVars>>

\* UserService.CreateUser: decode, insert, answer with the new user
CreateUser ==
  /\ userSeq <= MaxUsers
  /\ \E decoded \in BOOLEAN, inserted \in BOOLEAN :
       IF ~decoded
       THEN /\ userResp' = [code |-> StatusBadRequest, id |-> 0]
            /\ UNCHANGED <<users, userSeq>>
       ELSE IF ~inserted
       THEN /\ userResp' = [code |-> StatusInternalServerError, id |-> 0]
            /\ UNCHANGED <<users, userSeq>>
       ELSE /\ users' = users \cup {userSeq}
            /\ userSeq' = userSeq + 1
            /\ userResp' = [code |-> StatusOK, id |-> userSeq]
  /\ UNCHANGED <<dirLookup, svcVars, monoVars>>

\* processPayment, lines 71-81: the payment post comes back (or the client
\* gives up with an error)
PaymentReturn(r) ==
  /\ pc[r] = "paying"
  /\ \E answer \in PaymentAnswers :
       payAns' = [payAns EXCEPT ![r] = answer]
  /\ pc' = [pc EXCEPT ![r] = "finalizing"]
  /\ UNCHANGED <<body, order, valAns, resp, rows, orderSeq, lookup, dirVars, monoVars, calls, payReq>>

\* CreateOrder, lines 112-124: the status update, whose error is dropped, and
\* the response
Finalize(r) ==
  /\ pc[r] = "finalizing"
  /\ LET err == processPayment(payAns[r])
         out == IF err # NoErr THEN PaymentFailed(order[r], err)
                ELSE PaymentSucceeded(order[r])
     IN  /\ \E updated \in BOOLEAN :
               /\ rows' = IF updated THEN UpdateStatus(rows, out.status, order[r].ID)
                          ELSE rows
               /\ resp' = [resp EXCEPT ![r] = FinalResponse(out, updated)]
         /\ calls' = [calls EXCEPT ![r].update = @ + 1,
                                   ![r].updated = IF rows' # rows THEN @ + 1 ELSE @]
         /\ order' = [order EXCEPT ![r].Status = IF err # NoErr THEN @ ELSE "completed"]
  /\ pc' = [pc EXCEPT ![r] = "done"]
  /\ UNCHANGED <<body, valAns, payAns, orderSeq, lookup, dirVars, monoVars, payReq>>

Next ==
  \E r \in Reqs :
    \/ Receive(r)
    \/ ValidateReturn(r)
    \/ Insert(r)
    \/ PaymentReturn(r)
    \/ Finalize(r)

Spec == Init /\ [][Next]_vars

\* the same service, given bodies that fill in id, status and created_at
NextWithClientFields ==
  \E r \in Reqs :
    \/ ReceiveWithClientFields(r)
    \/ ValidateReturn(r)
    \/ Insert(r)
    \/ PaymentReturn(r)
    \/ Finalize(r)

SpecWithClientFields == Init /\ [][NextWithClientFields]_vars

\* the order-service next to a user-service that keeps creating users
NextWithDirectory ==
  \/ CreateUser
  \/ GetUserRequest
  \/ \E r \in Reqs :
       \/ ReceiveWithDirectory(r)
       \/ ValidateReturn(r)
       \/ Insert(r)
       \/ PaymentReturn(r)
       \/ Finalize(r)

SpecWithDirectory == Init /\ [][NextWithDirectory]_vars

\* the handler's own steps are scheduled; an outbound call is issued through
\* http.DefaultClient, whose Timeout is zero, so nothing forces ValidateReturn
\* or PaymentReturn to happen
FairSpec ==
  Spec /\ \A r \in Reqs : WF_vars(Receive(r)) /\ WF_vars(Insert(r)) /\ WF_vars(Finalize(r))

\* ------------------------------------------------------------ the monolith
\* request bodies of the monolith's /orders: ok says whether json.Decode
\* returned no error; the fields are what Decode left in the Order struct
\* (a syntax error leaves it zero, a field of the wrong type leaves the others)
MonoBodies ==
  [ok : BOOLEAN, id : ClientIds, user_id : UserIds, product : {"book"}, amount : {10}]

\* createOrderHandler, lines 55-56: the decode error is not looked at
MonoDecode(b) == [ID |-> b.id, UserID |-> b.user_id, Product |-> b.product, Amount |-> b.amount]

\* getUserByID: whether a user comes back (nil when the query errors)
getUserByID(userID, tbl, queryErr) == ~queryErr /\ userID \in tbl

\* createOrderHandler, lines 66-67: the orders table after the INSERT
MonoInsertOrder(tbl, seq, o) ==
  tbl \cup {[id |-> seq, user_id |-> o.UserID, product |-> o.Product, amount |-> o.Amount]}

\* processPayment of the monolith: the payments table after the INSERT
MonoProcessPayment(tbl, seq, orderID, amount) ==
  tbl \cup {[id |-> seq, order_id |-> orderID, amount |-> amount, status |-> "completed"]}

\* createOrderHandler, lines 55-63: decode the body and look the user up;
\* queryErr is whether the SELECT errors
createOrderHandler(r) ==
  /\ mReq[r].pc = "idle"
  /\ \E b \in MonoBodies, queryErr \in BOOLEAN :
       LET o == MonoDecode(b)
       IN  mReq' = [mReq EXCEPT ![r] =
                      IF ~getUserByID(o.UserID, mUsers, queryErr)
                      THEN [@ EXCEPT !.pc = "done", !.ok = b.ok, !.order = o,
                                     !.code = StatusNotFound]
                      ELSE [@ EXCEPT !.pc = "order", !.ok = b.ok, !.order = o]]
  /\ UNCHANGED <<mUsers, mOrders, mPayments, mSeq, mUserResp, svcVars, dirVars>>

\* createOrderHandler, lines 66-71: the INSERT INTO orders, on its own
createOrderInsert(r) ==
  /\ mReq[r].pc = "order"
  /\ \E orderOk \in BOOLEAN :
       IF ~orderOk
       THEN /\ mReq' = [mReq EXCEPT ![r].pc = "done",
                                    ![r].code = StatusInternalServerError]
            /\ UNCHANGED <<mOrders, mSeq>>
       ELSE /\ mOrders' = MonoInsertOrder(mOrders, mSeq.orders, mReq[r].order)
            /\ mSeq' = [mSeq EXCEPT !.orders = @ + 1]
            /\ mReq' = [mReq EXCEPT ![r].pc = "payment", ![r].orderRow = mSeq.orders]
  /\ UNCHANGED <<mUsers, mPayments, mUserResp, svcVars, dirVars>>

\* createOrderHandler, lines 74-76: the INSERT INTO payments, on its own and
\* with its error dropped, then the answer
createOrderPayment(r) ==
  /\ mReq[r].pc = "payment"
  /\ \E payOk \in BOOLEAN :
       /\ mPayments' = IF payOk
                       THEN MonoProcessPayment(mPayments, mSeq.payments,
                                               mReq[r].order.ID, mReq[r].order.Amount)
                       ELSE mPayments
       /\ mSeq' = [mSeq EXCEPT !.payments = IF payOk THEN @ + 1 ELSE @]
       /\ mReq' = [mReq EXCEPT ![r].pc = "done", ![r].code = StatusOK,
                                ![r].respId = mReq[r].order.ID,
                                ![r].payRow = IF payOk THEN mSeq.payments ELSE 0]
  /\ UNCHANGED <<mUsers, mOrders, mUserResp, svcVars, dirVars>>

\* createUserHandler: the whole handler (one store operation); the decode
\* error is not looked at
createUserHandler ==
  /\ mSeq.users <= MaxUsers
  /\ \E inserted \in BOOLEAN :
       IF ~inserted
       THEN /\ mUserResp' = StatusInternalServerError
            /\ UNCHANGED <<mUsers, mSeq>>
       ELSE /\ mUsers' = mUsers \cup {mSeq.users}
            /\ mSeq' = [mSeq EXCEPT !.users = @ + 1]
            /\ mUserResp' = StatusOK
  /\ UNCHANGED <<mOrders, mPayments, mReq, svcVars, dirVars>>

MonoNext ==
  \/ createUserHandler
  \/ \E r \in MonoReqs :
       \/ createOrderHandler(r)
       \/ createOrderInsert(r)
       \/ createOrderPayment(r)

MonoSpec == Init /\ [][MonoNext]_vars

TypeOK ==
  /\ pc \in [Reqs -> {"idle", "validating", "inserting", "paying", "finalizing", "done"}]
  /\ body \in [Reqs -> Bodies \cup BodiesWithClientFields \cup BodiesWithDirectory]
  /\ valAns \in [Reqs -> DirectoryAnswers \cup {NotCalled}]
  /\ payAns \in [Reqs -> PaymentAnswers \cup {NotCalled}]
  /\ orderSeq \in 1..(MaxReqs + 1)

\* ------------------------------------------------------------------ claims
Terminal == {"completed", "payment_failed"}

\* the invocations whose insert returned an id
Inserted == {r \in Reqs : calls[r].returned # 0}

\* the rows of the store that carry the id invocation r was given
RowsOf(r) == {row \in rows : row.id = calls[r].returned}

\* every row of the store was put there by the successful insert of exactly
\* one invocation
StoreIsTheInserts ==
  /\ \A row \in rows : \E r \in Inserted : row.id = calls[r].returned
  /\ Cardinality(rows) = Cardinality(Inserted)

ValidationFailedFor(r) == valAns[r] \notin {NotCalled, StatusOK}

PaymentFailedFor(r) == payAns[r] \notin {NotCalled, StatusOK}

NoPaymentNoUpdate(r) ==
  /\ calls[r].pay = 0 /\ ~payReq[r].sent /\ payAns[r] = NotCalled
  /\ calls[r].update = 0 /\ calls[r].updated = 0

\* C1: when the user lookup of a decoded request fails (non-200 answer or no
\* answer), the caller gets 400, the store has no row from this invocation,
\* and neither a payment call nor a status update is made.
C1_ValidationFailureRejects ==
  /\ StoreIsTheInserts
  /\ \A r \in Reqs :
       (pc[r] = "done" /\ ValidationFailedFor(r)) =>
         /\ resp[r].code = StatusBadRequest /\ resp[r].kind = "error"
         /\ calls[r].insert = 0 /\ calls[r].returned = 0
         /\ NoPaymentNoUpdate(r)

C1_Witness ==
  \E r \in Reqs :
    /\ pc[r] = "done" /\ body[r].ok /\ body[r].user_id = 2
    /\ valAns[r] = StatusNotFound /\ resp[r].code = StatusBadRequest

\* C2: when the user exists, the insert succeeds and the payment fails
\* (non-200 answer or no answer), the response is 200 and its body is the
\* finalized Order with status payment_failed; a payment error never makes
\* the response an error response.
C2_PaymentFailureAnswers200 ==
  \A r \in Reqs :
    (pc[r] = "done" /\ PaymentFailedFor(r)) =>
      /\ resp[r].code = StatusOK /\ resp[r].kind = "order"
      /\ resp[r].order.Status = "payment_failed"

\* C3 as stated: a successfully inserted Order is pending in the store while
\* the payment call is out, and has a terminal status in the store once the
\* response is returned, also when the status update fails.
C3_Original ==
  \A r \in Inserted :
    /\ pc[r] = "paying" => \A row \in RowsOf(r) : row.status = "pending"
    /\ pc[r] = "done" => \A row \in RowsOf(r) : row.status \in Terminal

\* C3 amended: a successfully inserted Order is pending in the store until its
\* own invocation finalizes it; by the time the response is returned the
\* invocation has issued one status update to the terminal status of its
\* payment outcome, and the stored Order has that status when the update took
\* effect and is still pending when the update failed.
C3_PendingThenFinalized ==
  \A r \in Inserted :
    /\ RowsOf(r) # {}
    /\ pc[r] \in {"paying", "finalizing"} =>
         \A row \in RowsOf(r) : row.status = "pending"
    /\ pc[r] = "done" =>
         /\ calls[r].update = 1
         /\ \A row \in RowsOf(r) :
              row.status = IF calls[r].updated = 0 THEN "pending"
                           ELSE IF payAns[r] = StatusOK THEN "completed"
                           ELSE "payment_failed"

C3_Witness ==
  \E r \in Inserted :
    /\ pc[r] = "done" /\ calls[r].updated = 1
    /\ \E row \in RowsOf(r) : row.status \in Terminal
    /\ \E q \in Inserted : pc[q] = "paying"

\* C4: a request whose body cannot be decoded is answered 400 with no side
\* effect: no user lookup, no insert or update, no payment call.
C4_MalformedBodyNoSideEffect ==
  \A r \in Reqs :
    (pc[r] # "idle" /\ ~body[r].ok) =>
      /\ pc[r] = "done"
      /\ resp[r].code = StatusBadRequest /\ resp[r].kind = "error"
      /\ calls[r] = NoCalls
      /\ valAns[r] = NotCalled
      /\ NoPaymentNoUpdate(r)
      /\ RowsOf(r) = {}

C4_Witness ==
  \E r \in Reqs :
    /\ pc[r] = "done" /\ ~body[r].ok /\ resp[r].code = StatusBadRequest
    /\ \E q \in Reqs : calls[q].validate = 1

\* C5: when the insert fails after a successful validation, the response is
\* 500, no payment call and no status update follow, and the store has no row
\* from this invocation.
C5_InsertFailureStops ==
  /\ StoreIsTheInserts
  /\ \A r \in Reqs :
       (calls[r].insert = 1 /\ calls[r].returned = 0) =>
         /\ pc[r] = "done" /\ valAns[r] = StatusOK
         /\ resp[r].code = StatusInternalServerError /\ resp[r].kind = "error"
         /\ NoPaymentNoUpdate(r)

C5_Witness ==
  \E r \in Reqs :
    /\ pc[r] = "done" /\ calls[r].insert = 1 /\ calls[r].returned = 0
    /\ resp[r].code = StatusInternalServerError

\* C6: when the user exists, the insert succeeds and the payment answers 200,
\* the response is 200 with an Order body whose status is completed and
\* whose id is the id the insert returned.
C6_PaymentSuccessCompleted ==
  \A r \in Reqs :
    (pc[r] = "done" /\ payAns[r] = StatusOK) =>
      /\ resp[r].code = StatusOK /\ resp[r].kind = "order"
      /\ resp[r].order.Status = "completed"
      /\ calls[r].returned # 0
      /\ resp[r].order.ID = calls[r].returned
      /\ RowsOf(r) # {}

C6_Witness ==
  \E r \in Reqs :
    /\ pc[r] = "done" /\ payAns[r] = StatusOK /\ body[r].user_id = 1
    /\ resp[r].order.Status = "completed" /\ resp[r].order.ID = 2

\* C7 as stated: a decoded request that violates an input constraint (user id
\* not positive, negative amount, empty product) is answered 400, and no
\* Order is inserted and no payment call is made for it.
ViolatesConstraint(b) == b.user_id <= 0 \/ b.amount < 0 \/ b.product = ""

C7_InvalidInputRejected ==
  \A r \in Reqs :
    (pc[r] # "idle" /\ body[r].ok /\ ViolatesConstraint(body[r])) =>
      /\ calls[r].insert = 0 /\ calls[r].pay = 0
      /\ pc[r] = "done" => resp[r].code = StatusBadRequest

\* C8 as stated: every invocation that was started eventually returns a
\* response, also when the User Directory or the Payment Processor never
\* answers.
C8_EveryInvocationReturns ==
  \A r \in Reqs : (pc[r] # "idle") ~> (pc[r] = "done")

\* C9 as stated: every invocation performs exactly one insert and at most one
\* status update, exactly one validation call and at most one payment call.
C9_Original ==
  \A r \in Reqs :
    pc[r] = "done" =>
      /\ calls[r].insert = 1 /\ calls[r].update <= 1
      /\ calls[r].validate = 1 /\ calls[r].pay <= 1

\* C9 amended: every invocation performs at most one validation call, insert,
\* payment call and status update, and none is retried: exactly one
\* validation call when the body decodes and none otherwise, exactly one
\* insert when the validation succeeds and none otherwise, exactly one
\* payment call followed by exactly one status update when the insert
\* succeeds and none otherwise.
C9_AtMostOnceEach ==
  \A r \in Reqs :
    /\ calls[r].validate <= 1 /\ calls[r].insert <= 1
    /\ calls[r].pay <= 1 /\ calls[r].update <= 1
    /\ pc[r] = "done" =>
         /\ calls[r].validate = IF body[r].ok THEN 1 ELSE 0
         /\ calls[r].insert = IF valAns[r] = StatusOK THEN 1 ELSE 0
         /\ calls[r].pay = IF calls[r].returned # 0 THEN 1 ELSE 0
         /\ calls[r].update = calls[r].pay

C9_Witness ==
  \E r, q \in Reqs :
    /\ pc[r] = "done" /\ valAns[r] = NoAnswer /\ calls[r].validate = 1
    /\ pc[q] = "done" /\ payAns[q] = NoAnswer /\ calls[q].pay = 1
    /\ calls[q].update = 1 /\ calls[q].updated = 0

\* C10: there is no deduplication: any two invocations that both pass
\* validation and insertion, identical input included, leave two distinct
\* rows with two distinct ids, and no two rows of the store share an id.
C10_NoDeduplication ==
  /\ \A r, q \in Inserted :
       r # q => /\ calls[r].returned # calls[q].returned
                /\ Cardinality(RowsOf(r) \cup RowsOf(q)) = 2
  /\ \A row1, row2 \in rows : row1.id = row2.id => row1 = row2
  /\ Cardinality(rows) = Cardinality(Inserted)

C10_Witness ==
  \E r, q \in Inserted :
    /\ r # q /\ body[r] = body[q]
    /\ pc[r] = "done" /\ pc[q] = "done"
    /\ \E row1 \in RowsOf(r), row2 \in RowsOf(q) :
         row1.id # row2.id /\ row1.status = row2.status

\* two bodies that differ at most in the values of id, status and created_at:
\* the same JSON syntax around them and the same user_id, product, quantity
\* and amount
SameButClientFields(b1, b2) ==
  /\ (b1.ok \/ b1.illTyped # {}) = (b2.ok \/ b2.illTyped # {})
  /\ b1.user_id = b2.user_id /\ b1.product = b2.product
  /\ b1.quantity = b2.quantity /\ b1.amount = b2.amount

\* two finished invocations whose calls to the directory, the store and the
\* payment processor, where both made them, met the same answers
SameOutcomes(r, q) ==
  /\ pc[r] = "done" /\ pc[q] = "done"
  /\ (valAns[r] # NotCalled /\ valAns[q] # NotCalled) => valAns[r] = valAns[q]
  /\ (calls[r].insert = 1 /\ calls[q].insert = 1) =>
       (calls[r].returned = 0) = (calls[q].returned = 0)
  /\ (payAns[r] # NotCalled /\ payAns[q] # NotCalled) => payAns[r] = payAns[q]
  /\ (calls[r].update = 1 /\ calls[q].update = 1) => calls[r].updated = calls[q].updated

WithoutId(rec) == [f \in (DOMAIN rec) \ {"id", "ID", "order_id"} |-> rec[f]]

\* C11: id, initial status and creation time are never taken from the body:
\* the stored row has the id the store returned, is pending with the server's
\* time when inserted, and two requests that differ only in id, status or
\* created_at and meet the same answers make the same outbound calls, store
\* the same row and get the same response, up to the ids the store assigns.
C11_ClientFieldsIgnored ==
  /\ \A r \in Inserted :
       /\ \A row \in RowsOf(r) :
            /\ row.created_at = Now
            /\ pc[r] \in {"paying", "finalizing"} => row.status = "pending"
       /\ payReq[r].order_id = calls[r].returned
       /\ resp[r].kind = "order" =>
            /\ resp[r].order.ID = calls[r].returned
            /\ resp[r].order.CreatedAt = Now
  /\ \A r, q \in Reqs :
       (SameButClientFields(body[r], body[q]) /\ SameOutcomes(r, q)) =>
         /\ calls[r].validate = calls[q].validate
         /\ calls[r].insert = calls[q].insert
         /\ calls[r].pay = calls[q].pay /\ calls[r].update = calls[q].update
         /\ WithoutId(payReq[r]) = WithoutId(payReq[q])
         /\ {WithoutId(row) : row \in RowsOf(r)} = {WithoutId(row) : row \in RowsOf(q)}
         /\ [resp[r] EXCEPT !.order = WithoutId(@)] = [resp[q] EXCEPT !.order = WithoutId(@)]

\* C12: GetUser answers 200 exactly when its query finds a row with the
\* requested id and 404 otherwise, whatever id text it is asked with and
\* whichever integer syntax the store reads; an invocation inserts only after
\* such a 200, so every stored Order's user id had a row in the users table
\* when its lookup was served.
C12_LookupGuardsInsert ==
  /\ dirLookup.asked =>
       /\ dirLookup.code \in {StatusOK, StatusNotFound}
       /\ (dirLookup.code = StatusOK) = dirLookup.found
       /\ dirLookup.found => dirLookup.row
  /\ \A r \in Reqs :
       /\ lookup[r].asked =>
            /\ valAns[r] \in {StatusOK, StatusNotFound}
            /\ (valAns[r] = StatusOK) = (lookup[r].row /\ ~lookup[r].dbErr)
       /\ (valAns[r] # NotCalled /\ ~lookup[r].asked) => valAns[r] = NoAnswer
       /\ calls[r].insert >= 1 => (lookup[r].asked /\ lookup[r].row)
  /\ \A row \in rows :
       \E r \in Inserted :
         /\ row.id = calls[r].returned /\ row.user_id = body[r].user_id
         /\ lookup[r].row /\ row.user_id \in users

C12_Witness ==
  /\ dirLookup.asked /\ ~dirLookup.canonical
  /\ dirLookup.found /\ dirLookup.code = StatusOK
  /\ \E r, q \in Reqs :
       /\ body[r].user_id = 2 /\ body[q].user_id = 2
       /\ pc[r] = "done" /\ lookup[r].asked /\ ~lookup[r].row /\ ~lookup[r].dbErr
       /\ valAns[r] = StatusNotFound /\ calls[r].insert = 0
       /\ q \in Inserted /\ lookup[q].row
       /\ \E row \in RowsOf(q) : row.user_id = 2

Statuses == {"pending"} \cup Terminal

\* the status the payment outcome of invocation r calls for
OutcomeStatus(r) == IF payAns[r] = StatusOK THEN "completed" ELSE "payment_failed"

\* C13: a stored Order's status is always pending, completed or
\* payment_failed; a step changes a status only from pending to completed or
\* payment_failed, so a terminal status never changes again; no row is written
\* more than once after its insertion.
C13_StatusTransitions ==
  /\ [](\A row \in rows : row.status \in Statuses)
  /\ [](\A r \in Reqs : calls[r].update <= 1 /\ calls[r].updated <= calls[r].update)
  /\ [][\A row \in rows :
          \E n \in rows' :
            /\ n.id = row.id
            /\ \/ n.status = row.status
               \/ row.status = "pending" /\ n.status \in Terminal]_vars

C13_Witness ==
  \E row1, row2 \in rows :
    /\ row1.status = "completed" /\ row2.status = "payment_failed"
    /\ \A r \in Reqs : pc[r] = "done"

\* C14: within one invocation the steps come in the order validate, insert,
\* pay, finalize: an insert only after the lookup returned 200, a payment call
\* only after the insert returned an id, a status update only after the
\* payment call returned; every stored Order was preceded by a successful
\* validation of its user id in the invocation that inserted it.
C14_StepOrder ==
  /\ \A r \in Reqs :
       /\ pc[r] \in {"idle", "validating"} =>
            (valAns[r] = NotCalled /\ calls[r].insert = 0)
       /\ calls[r].insert >= 1 => valAns[r] = StatusOK
       /\ pc[r] = "inserting" => (valAns[r] = StatusOK /\ calls[r].insert = 0)
       /\ calls[r].pay >= 1 => (calls[r].insert = 1 /\ calls[r].returned # 0)
       /\ payReq[r].sent = (calls[r].pay = 1)
       /\ pc[r] = "paying" => (payAns[r] = NotCalled /\ calls[r].update = 0)
       /\ payAns[r] # NotCalled => calls[r].pay = 1
       /\ calls[r].update >= 1 => (payAns[r] # NotCalled /\ pc[r] = "done")
       /\ pc[r] = "finalizing" => (payAns[r] # NotCalled /\ calls[r].update = 0)
  /\ \A row \in rows :
       \E r \in Inserted :
         /\ row.id = calls[r].returned /\ row.user_id = order[r].UserID
         /\ valAns[r] = StatusOK /\ calls[r].validate = 1

C14_Witness ==
  \E r, q \in Reqs :
    /\ pc[r] = "done" /\ calls[r].update = 1 /\ payAns[r] = StatusOK
    /\ valAns[r] = StatusOK /\ RowsOf(r) # {}
    /\ pc[q] = "done" /\ valAns[q] = NoAnswer /\ calls[q].insert = 0

\* C15: the status update is best effort: the HTTP status and body are fixed
\* by the payment outcome (200 with the completed Order, or 500 with the
\* payment error) whether the UPDATE took effect or not.
C15_UpdateNeverMasks ==
  /\ \A r \in Inserted :
       pc[r] = "done" =>
         /\ (payAns[r] = StatusOK) = (resp[r].code = StatusOK)
         /\ (payAns[r] = StatusOK) = (resp[r].kind = "order")
         /\ payAns[r] = StatusOK => resp[r].order.Status = "completed"
         /\ payAns[r] # StatusOK =>
              /\ resp[r].code = StatusInternalServerError
              /\ resp[r].text \in {"payment failed", "payment service unavailable"}
  /\ \A r, q \in Inserted :
       (/\ pc[r] = "done" /\ pc[q] = "done"
        /\ body[r] = body[q] /\ payAns[r] = payAns[q]) =>
         [resp[r] EXCEPT !.order = WithoutId(@)] = [resp[q] EXCEPT !.order = WithoutId(@)]

C15_Witness ==
  \E r, q \in Inserted :
    /\ pc[r] = "done" /\ pc[q] = "done" /\ body[r] = body[q]
    /\ payAns[r] = StatusOK /\ payAns[q] = StatusOK
    /\ calls[r].updated = 1 /\ calls[q].updated = 0
    /\ resp[r].code = StatusOK /\ resp[q].code = StatusOK
    /\ \E row \in RowsOf(q) : row.status = "pending"

\* C16: under every interleaving, a step changes a row only when it is the
\* finalizing step of the invocation whose insert returned that row's id, no
\* row disappears, and a status update that took effect stays: the stored
\* status is the one the owner's payment outcome calls for.
C16_OnlyOwnerWrites ==
  /\ [][\A row \in rows :
          \E n \in rows' :
            /\ n.id = row.id
            /\ n # row =>
                 \E r \in Reqs :
                   /\ pc[r] = "finalizing" /\ pc'[r] = "done"
                   /\ calls[r].returned = row.id]_vars
  /\ [](\A r \in Inserted :
          calls[r].updated = 1 =>
            \A row \in RowsOf(r) : row.status = OutcomeStatus(r))

C16_Witness ==
  \E r, q \in Inserted :
    /\ r # q /\ calls[r].returned < calls[q].returned
    /\ pc[r] = "paying" /\ pc[q] = "done" /\ calls[q].updated = 1
    /\ \E row \in RowsOf(r) : row.status = "pending"
    /\ \E row \in RowsOf(q) : row.status = "payment_failed"

\* C17: an unreachable Payment Processor and a non-200 answer are treated
\* alike: the same status update (to payment_failed) is issued and the same
\* HTTP status code is returned.
C17_FailureClassesAlike ==
  /\ \A r \in Reqs :
       (pc[r] = "done" /\ PaymentFailedFor(r)) =>
         /\ calls[r].update = 1
         /\ calls[r].updated = 1 => \A row \in RowsOf(r) : row.status = "payment_failed"
  /\ \A r, q \in Reqs :
       (/\ pc[r] = "done" /\ pc[q] = "done"
        /\ payAns[r] = NoAnswer /\ payAns[q] = StatusInternalServerError) =>
         /\ resp[r].code = resp[q].code /\ resp[r].kind = resp[q].kind
         /\ calls[r].update = calls[q].update
         /\ calls[r].updated = calls[q].updated =>
              {row.status : row \in RowsOf(r)} = {row.status : row \in RowsOf(q)}

C17_Witness ==
  \E r, q \in Inserted :
    /\ pc[r] = "done" /\ pc[q] = "done"
    /\ payAns[r] = NoAnswer /\ payAns[q] = StatusInternalServerError
    /\ calls[r].updated = 1 /\ calls[q].updated = 1
    /\ resp[r].code = StatusInternalServerError
    /\ resp[q].code = StatusInternalServerError

\* C18: the payment request carries the id the store assigned to the row this
\* invocation inserted and that row's amount; it is not the id of the request
\* body nor the id of another invocation's row.
C18_PaymentCarriesOwnOrder ==
  \A r \in Reqs :
    payReq[r].sent =>
      /\ calls[r].returned # 0
      /\ payReq[r].order_id = calls[r].returned
      /\ \E row \in rows : row.id = payReq[r].order_id
      /\ \A row \in rows :
           row.id = payReq[r].order_id =>
             (row.amount = payReq[r].amount /\ row.user_id = body[r].user_id)
      /\ payReq[r].amount = body[r].amount
      /\ \A q \in Reqs \ {r} : calls[q].returned # payReq[r].order_id

C18_Witness ==
  \E r, q \in Inserted :
    /\ r # q /\ body[r].id = 7 /\ body[q].id = 7
    /\ payReq[r].sent /\ payReq[r].order_id = 1
    /\ payReq[q].sent /\ payReq[q].order_id = 2

\* C19: insert and status update are separate store operations, so between
\* them the row is in the store, visible with status pending; pending is the
\* only non-terminal status a row ever shows, and a row shows it only between
\* its insert and its update or after an update that failed.
C19_PendingIsVisible ==
  /\ \A r \in Inserted :
       pc[r] \in {"paying", "finalizing"} =>
         \E row \in rows : row.id = calls[r].returned /\ row.status = "pending"
  /\ \A row \in rows :
       row.status \notin Terminal =>
         /\ row.status = "pending"
         /\ \E r \in Inserted :
              /\ row.id = calls[r].returned
              /\ \/ pc[r] \in {"paying", "finalizing"}
                 \/ pc[r] = "done" /\ calls[r].updated = 0

C19_Witness ==
  \E r, q \in Inserted :
    /\ pc[r] = "finalizing" /\ \E row \in RowsOf(r) : row.status = "pending"
    /\ pc[q] = "done" /\ \E row \in RowsOf(q) : row.status \in Terminal

\* C20 as stated: once createOrderHandler has answered, the request wrote an
\* order row exactly when it wrote a payment row, and it answers 200 only
\* when the payment row was written.
C20_OrderAndPaymentTogether ==
  \A r \in MonoReqs :
    mReq[r].pc = "done" =>
      /\ (mReq[r].orderRow # 0) = (mReq[r].payRow # 0)
      /\ (\E o \in mOrders : o.id = mReq[r].orderRow)
           = (\E p \in mPayments : p.id = mReq[r].payRow)
      /\ mReq[r].code = StatusOK => mReq[r].payRow # 0

\* C21 as stated: every payment row a createOrderHandler request inserts has
\* the id of the order row the same request inserted as its order_id, and a
\* request whose user lookup finds no user is answered 404 and writes no
\* order row and no payment row.
C21_PaymentPointsAtOwnOrder ==
  /\ \A p \in mPayments : \E o \in mOrders : p.order_id = o.id
  /\ \A r \in MonoReqs :
       /\ \A p \in mPayments :
            p.id = mReq[r].payRow =>
              (mReq[r].orderRow # 0 /\ p.order_id = mReq[r].orderRow)
       /\ mReq[r].code = StatusNotFound => (mReq[r].orderRow = 0 /\ mReq[r].payRow = 0)
====
